---- MODULE Spec2Model ----
(***************************************************************************)
(* Maze (src/python_guide_3d659f.py): grid construction, randomized       *)
(* recursive-backtracking generation (explicit stack) and BFS solving     *)
(* with parent tracking.  Coordinates are Python's 0-based (row, col)     *)
(* pairs; a Python list is a TLA+ sequence, so Python index i is TLA+     *)
(* index i+1.                                                              *)
(***************************************************************************)
EXTENDS Integers, Sequences, FiniteSets, TLC

\* pc           position in the script: "new", "constructed", "generating",
\*              "generated", "handbuilt", "solving", "searched", "solved",
\*              or "raised" once an operation has raised an exception
\* arg_*        the arguments of the constructor call
\* generations  number of generate() calls that have returned
\* stack        generate()'s local stack
\* targets      the cells the current or last generate() carved as the chosen
\*              neighbour of a 2-unit step (line 74)
\* connectors   the cells it carved as the wall in between (line 78)
\* iterations   iterations of generate()'s while loop begun in the current or
\*              last call
\* pushes       the cells that call appended to stack, in order (line 50 first)
\* pops         the cells that call popped from stack, in order
\* returned_grid the grid as it was when generate() last returned
\* accessed     the (row, col) index pairs with which the generate() or solve()
\*              call most recently begun has subscripted self.grid
\* queue, parent_map, visited, path_found   solve()'s locals
\* enqueued     the cells the current or last solve() appended to queue, in order
\* dequeued     the cells it took from queue, in order
\* result       what solve() returned
\* output       the lines printed by the call most recently begun
\* display_path the path argument of that call when it is display()
\* current      which of two Maze instances the variables above belong to
\* other        the attributes and locals of the other Maze instance
\* uf_pc        position in the UnionFind example: "new", "constructed", "ready"
\* uf_parent    UnionFind.parent
\* uf_unions    the union(x, y) calls made so far, in order
VARIABLES pc, arg_width, arg_height, width, height, grid, start, end,
          generations, stack, targets, connectors,
          queue, parent_map, visited, path_found, result,
          output, display_path, current, other, uf_pc, uf_parent, uf_unions,
          iterations, pushes, pops, returned_grid, accessed, enqueued, dequeued

vars == <<pc, arg_width, arg_height, width, height, grid, start, end,
          generations, stack, targets, connectors,
          queue, parent_map, visited, path_found, result,
          output, display_path, current, other, uf_pc, uf_parent, uf_unions,
          iterations, pushes, pops, returned_grid, accessed, enqueued, dequeued>>

\* the record generate() leaves of its loop, and solve() of its queue
genLog == <<iterations, pushes, pops>>
solveLog == <<enqueued, dequeued>>

\* everything that is not an attribute, a local or the output of the current
\* Maze instance
outside == <<current, other, uf_pc, uf_parent, uf_unions>>

\* ---- bounds ---------------------------------------------------------------
\* largest width/height argument passed to Maze(width, height)
MaxDim == 6
\* arguments range down to -MaxNeg
MaxNeg == 2
\* hand-built grids: largest dimension argument, and largest number of cells
MaxHandDim == 5
MaxHandCells == 15

\* hand-built grids that the search is followed through step by step: largest
\* width and height arguments
MaxSearchWidth == 4
MaxSearchHeight == 2
\* and the most cells of such a grid that are made Path
MaxCarved == 7
\* two Maze instances side by side: largest dimension argument
MaxPairDim == 4
\* two generate() runs one after the other: largest dimension argument
MaxRunDim == 6
\* UnionFind: most union() calls a client makes
MaxUnions == 2
\* most generate() calls made on one maze
MaxGenerations == 2
\* display(): largest dimension argument, longest arbitrary path argument
MaxDisplayDim == 4
MaxPathLen == 2

DimArgs == (0 - MaxNeg)..MaxDim

\* ---- glyphs and Python values ----------------------------------------------
Wall == "#"
Path == " "
Start == "S"
End == "E"
SolutionMark == "o"
IndexError == "IndexError"
None == <<>>
NoResult == [isNone |-> FALSE, path |-> <<>>]

\* generate() and solve() print nothing
Silent == output' = <<>> /\ display_path' = None

\* ---- Python list indexing ------------------------------------------------
\* TLA+ index of Python index i in a list of length n; 0 when Python raises
\* IndexError (negative indices count from the end of the list).
PyIndex(n, i) ==
    IF i >= 0 /\ i < n THEN i + 1
    ELSE IF i < 0 /\ 0 - i <= n THEN n + i + 1
    ELSE 0

\* self.grid[r][c] as an expression: the glyph, or IndexError
Cell(g, r, c) ==
    LET ri == PyIndex(Len(g), r) IN
    IF ri = 0 THEN IndexError
    ELSE LET ci == PyIndex(Len(g[ri]), c) IN
         IF ci = 0 THEN IndexError ELSE g[ri][ci]

\* self.grid[r][c] = v (only used where Cell(g, r, c) # IndexError)
SetCell(g, r, c, v) ==
    LET ri == PyIndex(Len(g), r)
        ci == PyIndex(Len(g[ri]), c)
    IN [g EXCEPT ![ri][ci] = v]

\* ---- Maze.__init__ -------------------------------------------------------
\* no normalization
NormalizeKeep(d) == d
\* if d % 2 == 0: d += 1
Normalize(d) == IF d % 2 = 0 THEN d + 1 ELSE d

\* width rows of height cells
MakeGridSwapped(w, h) == [r \in 1..w |-> [c \in 1..h |-> Wall]]
\* [['#' for _ in range(width)] for _ in range(height)]
MakeGrid(w, h) == [r \in 1..h |-> [c \in 1..w |-> Wall]]

\* the bottom-right corner of the grid
EndOfCorner(w, h) == <<h - 1, w - 1>>
\* (height - 2, width - 2)
EndOf(w, h) == <<h - 2, w - 2>>

MazeInit(w, h) ==
    /\ pc = "new"
    /\ pc' = "constructed"
    /\ arg_width' = w
    /\ arg_height' = h
    /\ width' = Normalize(w)
    /\ height' = Normalize(h)
    /\ grid' = MakeGrid(Normalize(w), Normalize(h))
    /\ start' = <<1, 1>>
    /\ end' = EndOf(Normalize(w), Normalize(h))
    /\ UNCHANGED <<generations, stack, queue, parent_map, visited, path_found, result>>
    /\ Silent
    /\ UNCHANGED outside
    /\ UNCHANGED <<targets, connectors>>
    /\ UNCHANGED <<genLog, solveLog, returned_grid, accessed>>

\* ---- Maze._is_valid ------------------------------------------------------
\* the upper bounds alone
IsValidUpper(r, c) == r < height /\ c < width
\* bounds that stop two short of the far edges
IsValidShort(r, c) == 0 <= r /\ r < height - 2 /\ 0 <= c /\ c < width - 2
IsValid(r, c) == 0 <= r /\ r < height /\ 0 <= c /\ c < width

\* ---- Maze.generate ----------------------------------------------------
\* steps of one unit
GenDirectionsOneUnit == << <<0, 1>>, <<0, -1>>, <<1, 0>>, <<-1, 0>> >>
\* directions = [(0, 2), (0, -2), (2, 0), (-2, 0)]   Right, Left, Down, Up
GenDirections == << <<0, 2>>, <<0, -2>>, <<2, 0>>, <<-2, 0>> >>

\* the candidate cell in direction d from cur
Neighbor(cur, d) == <<cur[1] + d[1], cur[2] + d[2]>>

\* the cell one unit beyond the neighbour
WallBetweenBeyond(cur, nxt) ==
    <<nxt[1] + ((nxt[1] - cur[1]) \div 2), nxt[2] + ((nxt[2] - cur[2]) \div 2)>>
\* a carve that leaves the wall between the two cells standing
WallBetweenStay(cur, nxt) == cur
\* the step without the halving
WallBetweenWhole(cur, nxt) == nxt
\* wall_r, wall_c = current_r + (next_r - current_r) // 2,
\*                  current_c + (next_c - current_c) // 2
WallBetween(cur, nxt) ==
    <<cur[1] + ((nxt[1] - cur[1]) \div 2), cur[2] + ((nxt[2] - cur[2]) \div 2)>>

\* a test of the wall between the two cells in place of the neighbour itself
UnvisitedByWallBetween(g, cur, d) ==
    /\ IsValid(Neighbor(cur, d)[1], Neighbor(cur, d)[2])
    /\ Cell(g, WallBetween(cur, Neighbor(cur, d))[1],
             WallBetween(cur, Neighbor(cur, d))[2]) = Wall
\* if self._is_valid(neighbor_r, neighbor_c) and
\*    self.grid[neighbor_r][neighbor_c] == '#'
Unvisited(g, cur, d) ==
    /\ IsValid(Neighbor(cur, d)[1], Neighbor(cur, d)[2])
    /\ Cell(g, Neighbor(cur, d)[1], Neighbor(cur, d)[2]) = Wall

\* unvisited_neighbors, in the order of directions
RECURSIVE UnvisitedFrom(_, _, _)
UnvisitedFrom(g, cur, i) ==
    IF i > Len(GenDirections) THEN <<>>
    ELSE (IF Unvisited(g, cur, GenDirections[i])
          THEN <<Neighbor(cur, GenDirections[i])>> ELSE <<>>)
         \o UnvisitedFrom(g, cur, i + 1)

UnvisitedNeighbors(g, cur) == UnvisitedFrom(g, cur, 1)

\* the index pairs with which an iteration at cur subscripts self.grid in its
\* test of the neighbours (line 65, and line 125 in solve()): `and` evaluates
\* the subscript only where _is_valid holds
Probed(cur, directions) ==
    {n \in {Neighbor(cur, directions[i]) : i \in 1..Len(directions)} :
        IsValid(n[1], n[2])}

\* a call that begins by walling the whole grid up again
CarveStartAfresh(g) == SetCell(MakeGrid(width, height), start[1], start[2], Path)
\* line 49: self.grid[current_r][current_c] = ' ', on the grid as the call
\* finds it
CarveStart(g) == SetCell(g, start[1], start[2], Path)

\* a backtrack that leaves the stack as it is
PopKeep(stk) == stk
\* line 84: stack.pop()
Pop(stk) == SubSeq(stk, 1, Len(stk) - 1)

\* lines 46-50 when self.grid[1][1] exists: mark start as a path, push it
GenerateBegin ==
    /\ pc = "constructed"
    /\ Cell(grid, start[1], start[2]) # IndexError
    /\ grid' = CarveStart(grid)
    /\ stack' = <<start>>
    /\ pc' = "generating"
    /\ UNCHANGED <<generations, arg_width, arg_height, width, height, start, end,
                   queue, parent_map, visited, path_found, result>>
    /\ Silent
    /\ UNCHANGED outside
    /\ targets' = {}
    /\ connectors' = {}
    /\ iterations' = 0
    /\ pushes' = <<start>>
    /\ pops' = <<>>
    /\ accessed' = {start}
    /\ UNCHANGED <<solveLog, returned_grid>>

\* line 49 when the index is out of range: generate() raises IndexError
GenerateRaise ==
    /\ pc = "constructed"
    /\ Cell(grid, start[1], start[2]) = IndexError
    /\ pc' = "raised"
    /\ UNCHANGED <<generations, arg_width, arg_height, width, height, grid, start, end,
                   stack, queue, parent_map, visited, path_found, result>>
    /\ Silent
    /\ UNCHANGED outside
    /\ UNCHANGED <<targets, connectors>>
    /\ accessed' = {start}
    /\ UNCHANGED <<genLog, solveLog, returned_grid>>

\* lines 46-50 on a maze whose generate() has returned before: the same
\* statements, on the grid as the earlier call (and solve()) left it
GenerateAgain ==
    /\ pc \in {"generated", "solved"}
    /\ generations >= 1
    /\ generations < MaxGenerations
    /\ grid' = CarveStart(grid)
    /\ stack' = <<start>>
    /\ pc' = "generating"
    /\ UNCHANGED <<generations, arg_width, arg_height, width, height, start, end,
                   queue, parent_map, visited, path_found, result>>
    /\ Silent
    /\ UNCHANGED outside
    /\ targets' = {}
    /\ connectors' = {}
    /\ iterations' = 0
    /\ pushes' = <<start>>
    /\ pops' = <<>>
    /\ accessed' = {start}
    /\ UNCHANGED <<solveLog, returned_grid>>

\* lines 56-81: one iteration that finds unvisited neighbours; the random
\* choice is the index i into unvisited_neighbors
GenerateCarve ==
    /\ pc = "generating"
    /\ stack # <<>>
    /\ LET cur == stack[Len(stack)]
           unvisited_neighbors == UnvisitedNeighbors(grid, cur)
       IN /\ unvisited_neighbors # <<>>
          /\ \E i \in 1..Len(unvisited_neighbors) :
                LET nxt == unvisited_neighbors[i]
                    wall == WallBetween(cur, nxt)
                    g1 == SetCell(grid, nxt[1], nxt[2], Path)
                IN IF Cell(g1, wall[1], wall[2]) = IndexError
                   THEN /\ grid' = g1
                        /\ pc' = "raised"
                        /\ stack' = stack
                        /\ targets' = targets \cup {nxt}
                        /\ connectors' = connectors
                        /\ pushes' = pushes
                        /\ accessed' = accessed \cup Probed(cur, GenDirections)
                                                 \cup {nxt, wall}
                   ELSE /\ grid' = SetCell(g1, wall[1], wall[2], Path)
                        /\ stack' = Append(stack, nxt)
                        /\ pc' = pc
                        /\ targets' = targets \cup {nxt}
                        /\ connectors' = connectors \cup {wall}
                        /\ pushes' = Append(pushes, nxt)
                        /\ accessed' = accessed \cup Probed(cur, GenDirections)
                                                 \cup {nxt, wall}
    /\ iterations' = iterations + 1
    /\ UNCHANGED <<generations, arg_width, arg_height, width, height, start, end,
                   queue, parent_map, visited, path_found, result>>
    /\ UNCHANGED <<output, display_path>>
    /\ UNCHANGED outside
    /\ UNCHANGED <<pops, solveLog, returned_grid>>

\* lines 56-66, 82-84: one iteration that finds none; backtrack
GenerateBacktrack ==
    /\ pc = "generating"
    /\ stack # <<>>
    /\ UnvisitedNeighbors(grid, stack[Len(stack)]) = <<>>
    /\ stack' = Pop(stack)
    /\ UNCHANGED <<pc, generations, arg_width, arg_height, width, height, grid, start, end,
                   queue, parent_map, visited, path_found, result>>
    /\ UNCHANGED <<output, display_path>>
    /\ UNCHANGED outside
    /\ UNCHANGED <<targets, connectors>>
    /\ iterations' = iterations + 1
    /\ pops' = Append(pops, stack[Len(stack)])
    /\ accessed' = accessed \cup Probed(stack[Len(stack)], GenDirections)
    /\ UNCHANGED <<pushes, solveLog, returned_grid>>

\* lines 86-88: the loop has ended; write the Start and End markers
GenerateEnd ==
    /\ pc = "generating"
    /\ stack = <<>>
    /\ LET g1 == SetCell(grid, start[1], start[2], Start)
       IN IF Cell(g1, end[1], end[2]) = IndexError
          THEN /\ grid' = g1
               /\ pc' = "raised"
               /\ generations' = generations
               /\ returned_grid' = returned_grid
          ELSE /\ grid' = SetCell(g1, end[1], end[2], End)
               /\ pc' = "generated"
               /\ generations' = generations + 1
               /\ returned_grid' = SetCell(g1, end[1], end[2], End)
    /\ UNCHANGED <<arg_width, arg_height, width, height, start, end,
                   stack, queue, parent_map, visited, path_found, result>>
    /\ UNCHANGED <<output, display_path>>
    /\ UNCHANGED outside
    /\ UNCHANGED <<targets, connectors>>
    /\ accessed' = accessed \cup {start, end}
    /\ UNCHANGED <<genLog, solveLog>>

\* ---- Maze.solve -------------------------------------------------------
\* directions = [(0, 1), (0, -1), (1, 0), (-1, 0)]   Right, Left, Down, Up
SolveDirections == << <<0, 1>>, <<0, -1>>, <<1, 0>>, <<-1, 0>> >>

\* queue.pop(): the newest cell
PopRight(q) == <<q[Len(q)], SubSeq(q, 1, Len(q) - 1)>>
\* queue.popleft(): the oldest cell, and the queue that remains
PopLeft(q) == <<Head(q), Tail(q)>>

\* no test of visited
QualifiesRevisiting(g, vis, n) ==
    /\ IsValid(n[1], n[2])
    /\ Cell(g, n[1], n[2]) # Wall
\* only Wall cells pass
QualifiesOnlyWalls(g, vis, n) ==
    /\ IsValid(n[1], n[2])
    /\ Cell(g, n[1], n[2]) = Wall
    /\ n \notin vis
\* no test of the glyph
QualifiesThroughWalls(g, vis, n) ==
    /\ IsValid(n[1], n[2])
    /\ n \notin vis
\* self._is_valid(neighbor_r, neighbor_c) and
\* self.grid[neighbor_r][neighbor_c] != '#' and
\* (neighbor_r, neighbor_c) not in visited
\* (an IndexError value is not '#': the caller turns it into a raise)
Qualifies(g, vis, n) ==
    /\ IsValid(n[1], n[2])
    /\ Cell(g, n[1], n[2]) # Wall
    /\ n \notin vis

\* parent_map[key] = value
PutParent(pm, key, value) ==
    [k \in DOMAIN pm \cup {key} |-> IF k = key THEN value ELSE pm[k]]

\* queue.appendleft in place of queue.append
VisitAtFront(st, n, cur) ==
    [visited |-> st.visited \cup {n},
     queue |-> <<n>> \o st.queue,
     parent_map |-> PutParent(st.parent_map, n, cur),
     grid |-> st.grid,
     raised |-> FALSE]
\* a search that marks the cells it has seen in the grid itself
VisitMarkingGrid(st, n, cur) ==
    [visited |-> st.visited \cup {n},
     queue |-> Append(st.queue, n),
     parent_map |-> PutParent(st.parent_map, n, cur),
     grid |-> SetCell(st.grid, n[1], n[2], SolutionMark),
     raised |-> FALSE]
\* lines 128-130, the only writes of the loop: visited.add, queue.append and
\* parent_map[...] = ...; self.grid is not assigned
Visit(st, n, cur) ==
    [visited |-> st.visited \cup {n},
     queue |-> Append(st.queue, n),
     parent_map |-> PutParent(st.parent_map, n, cur),
     grid |-> st.grid,
     raised |-> FALSE]

\* lines 120-130: the for loop over directions from index i on, threading
\* visited, queue, parent_map and the grid; raised records an IndexError on a
\* grid read
RECURSIVE ScanNeighbors(_, _, _, _)
ScanNeighbors(g, cur, i, st) ==
    IF i > Len(SolveDirections) \/ st.raised THEN st
    ELSE LET n == Neighbor(cur, SolveDirections[i]) IN
         IF IsValid(n[1], n[2]) /\ Cell(g, n[1], n[2]) = IndexError
         THEN [st EXCEPT !.raised = TRUE]
         ELSE IF Qualifies(g, st.visited, n)
         THEN ScanNeighbors(g, cur, i + 1, Visit(st, n, cur))
         ELSE ScanNeighbors(g, cur, i + 1, st)

\* lines 136-140: follow parent_map from cur until None, collecting cells
RECURSIVE Reconstruct(_, _)
Reconstruct(pm, cur) ==
    IF cur = None THEN <<>>
    ELSE <<cur>> \o Reconstruct(pm, pm[cur])

\* what line 129's queue.append calls added to the queue that was `before`
Appended(before, after) == SubSeq(after, Len(before) + 1, Len(after))

\* the path as collected, end first
ReverseKeep(s) == s
\* path[::-1]
Reverse(s) == [i \in 1..Len(s) |-> s[Len(s) + 1 - i]]

\* a search that never recognises end
AtEndNever(cur) == FALSE
\* line 116: if (current_r, current_c) == self.end
AtEnd(cur) == cur = end

\* lines 98-112: queue, parent_map, visited and path_found are set up
SolveBegin ==
    /\ pc \in {"constructed", "generated", "handbuilt"}
    /\ queue' = <<start>>
    /\ parent_map' = PutParent(<<>>, start, None)
    /\ visited' = {start}
    /\ path_found' = FALSE
    /\ pc' = "solving"
    /\ UNCHANGED <<generations, arg_width, arg_height, width, height, grid, start, end,
                   stack, result>>
    /\ Silent
    /\ UNCHANGED outside
    /\ UNCHANGED <<targets, connectors>>
    /\ enqueued' = <<start>>
    /\ dequeued' = <<>>
    /\ accessed' = {}
    /\ UNCHANGED <<genLog, returned_grid>>

\* lines 113-118: an iteration that dequeues end; break out of the loop
SolveFound ==
    /\ pc = "solving"
    /\ queue # <<>>
    /\ AtEnd(PopLeft(queue)[1])
    /\ queue' = PopLeft(queue)[2]
    /\ path_found' = TRUE
    /\ pc' = "searched"
    /\ UNCHANGED <<generations, arg_width, arg_height, width, height, grid, start, end,
                   stack, parent_map, visited, result>>
    /\ UNCHANGED <<output, display_path>>
    /\ UNCHANGED outside
    /\ UNCHANGED <<targets, connectors>>
    /\ dequeued' = Append(dequeued, PopLeft(queue)[1])
    /\ UNCHANGED <<genLog, returned_grid, accessed, enqueued>>

\* lines 113-130: an iteration that dequeues another cell and scans its
\* four neighbours
SolveExpand ==
    /\ pc = "solving"
    /\ queue # <<>>
    /\ ~AtEnd(PopLeft(queue)[1])
    /\ LET cur == PopLeft(queue)[1]
           st == ScanNeighbors(grid, cur, 1,
                     [visited |-> visited, queue |-> PopLeft(queue)[2],
                      parent_map |-> parent_map, grid |-> grid,
                      raised |-> FALSE])
       IN /\ visited' = st.visited
          /\ queue' = st.queue
          /\ parent_map' = st.parent_map
          /\ grid' = st.grid
          /\ pc' = IF st.raised THEN "raised" ELSE pc
          /\ enqueued' = enqueued \o Appended(PopLeft(queue)[2], st.queue)
          /\ dequeued' = Append(dequeued, cur)
          /\ accessed' = accessed \cup Probed(cur, SolveDirections)
    /\ UNCHANGED <<generations, arg_width, arg_height, width, height, start, end,
                   stack, path_found, result>>
    /\ UNCHANGED <<output, display_path>>
    /\ UNCHANGED outside
    /\ UNCHANGED <<targets, connectors>>
    /\ UNCHANGED <<genLog, returned_grid>>

\* line 113: the queue is empty, the while loop ends
SolveExhausted ==
    /\ pc = "solving"
    /\ queue = <<>>
    /\ pc' = "searched"
    /\ UNCHANGED <<generations, arg_width, arg_height, width, height, grid, start, end,
                   stack, queue, parent_map, visited, path_found, result>>
    /\ UNCHANGED <<output, display_path>>
    /\ UNCHANGED outside
    /\ UNCHANGED <<targets, connectors>>
    /\ UNCHANGED <<genLog, solveLog, returned_grid, accessed>>

\* lines 132-133: return None
SolveReturnNone ==
    /\ pc = "searched"
    /\ ~path_found
    /\ result' = [isNone |-> TRUE, path |-> <<>>]
    /\ pc' = "solved"
    /\ UNCHANGED <<generations, arg_width, arg_height, width, height, grid, start, end,
                   stack, queue, parent_map, visited, path_found>>
    /\ UNCHANGED <<output, display_path>>
    /\ UNCHANGED outside
    /\ UNCHANGED <<targets, connectors>>
    /\ UNCHANGED <<genLog, solveLog, returned_grid, accessed>>

\* lines 135-141: return the reconstructed path, reversed
SolveReturnPath ==
    /\ pc = "searched"
    /\ path_found
    /\ result' = [isNone |-> FALSE, path |-> Reverse(Reconstruct(parent_map, end))]
    /\ pc' = "solved"
    /\ UNCHANGED <<generations, arg_width, arg_height, width, height, grid, start, end,
                   stack, queue, parent_map, visited, path_found>>
    /\ UNCHANGED <<output, display_path>>
    /\ UNCHANGED outside
    /\ UNCHANGED <<targets, connectors>>
    /\ UNCHANGED <<genLog, solveLog, returned_grid, accessed>>

\* ---- Maze.display ------------------------------------------------------
\* a slip of "or" for "and": every coordinate is marked unless start = end
IsOverlaidEither(cell) == cell # start \/ cell # end
\* if (r, c) != self.start and (r, c) != self.end
IsOverlaid(cell) == cell # start /\ cell # end

\* lines 152-156: the writes of 'o' into display_grid for path[i..];
\* raised records an IndexError on a write
RECURSIVE MarkPath(_, _, _)
MarkPath(dg, path, i) ==
    IF i > Len(path) THEN [grid |-> dg, raised |-> FALSE]
    ELSE IF ~IsOverlaid(path[i]) THEN MarkPath(dg, path, i + 1)
    ELSE IF Cell(dg, path[i][1], path[i][2]) = IndexError
         THEN [grid |-> dg, raised |-> TRUE]
         ELSE MarkPath(SetCell(dg, path[i][1], path[i][2], SolutionMark), path, i + 1)

\* display_grid = self.grid, the same list object: its writes are the grid's
GridAfterDisplayShared(g, display_grid) == display_grid
\* self.grid once display() has written to display_grid: line 150 builds
\* display_grid from copies of the rows (row[:]), so self.grid keeps its cells
GridAfterDisplay(g, display_grid) == g

\* lines 159-160: one printed line per r in range(self.height); a line is the
\* sequence of the glyphs "".join() concatenates
PrintedLines(display_grid) == [r \in 1..height |-> display_grid[r]]

\* display(path); None and the empty list are both falsy at line 152 and are
\* the same value here.  Between two calls of other operations display() is
\* called once.
Display(path) ==
    /\ pc \in {"constructed", "generated", "solved"}
    /\ output = <<>>
    /\ LET marked == MarkPath(grid, path, 1)
       IN IF marked.raised \/ height > Len(marked.grid)
          THEN /\ pc' = "raised"
               /\ output' = <<>>
               /\ grid' = GridAfterDisplay(grid, marked.grid)
          ELSE /\ pc' = pc
               /\ output' = PrintedLines(marked.grid)
               /\ grid' = GridAfterDisplay(grid, marked.grid)
    /\ display_path' = path
    /\ UNCHANGED <<arg_width, arg_height, width, height, start, end, generations,
                   stack, queue, parent_map, visited, path_found, result>>
    /\ UNCHANGED outside
    /\ UNCHANGED <<targets, connectors>>
    /\ UNCHANGED <<genLog, solveLog, returned_grid, accessed>>

\* ---- Maze(w, h), then generate() and solve(), or solve() alone ---------------
\* a Maze instance that has not been constructed yet
NoInstance ==
    [pc |-> "new", arg_width |-> 0, arg_height |-> 0, width |-> 0, height |-> 0,
     grid |-> <<>>, start |-> <<1, 1>>, end |-> <<1, 1>>, generations |-> 0,
     stack |-> <<>>, targets |-> {}, connectors |-> {},
     queue |-> <<>>, parent_map |-> <<>>, visited |-> {},
     path_found |-> FALSE, result |-> NoResult,
     iterations |-> 0, pushes |-> <<>>, pops |-> <<>>, returned_grid |-> <<>>,
     accessed |-> {}, enqueued |-> <<>>, dequeued |-> <<>>]

Init ==
    /\ pc = "new"
    /\ arg_width = 0
    /\ arg_height = 0
    /\ width = 0
    /\ height = 0
    /\ grid = <<>>
    /\ start = <<1, 1>>
    /\ end = <<1, 1>>
    /\ generations = 0
    /\ stack = <<>>
    /\ targets = {}
    /\ connectors = {}
    /\ queue = <<>>
    /\ parent_map = <<>>
    /\ visited = {}
    /\ path_found = FALSE
    /\ result = NoResult
    /\ output = <<>>
    /\ display_path = None
    /\ current = 1
    /\ other = NoInstance
    /\ uf_pc = "new"
    /\ uf_parent = <<>>
    /\ uf_unions = <<>>
    /\ iterations = 0
    /\ pushes = <<>>
    /\ pops = <<>>
    /\ returned_grid = <<>>
    /\ accessed = {}
    /\ enqueued = <<>>
    /\ dequeued = <<>>

Next ==
    \/ \E w \in DimArgs, h \in DimArgs : MazeInit(w, h)
    \/ GenerateBegin
    \/ GenerateRaise
    \/ GenerateCarve
    \/ GenerateBacktrack
    \/ GenerateEnd
    \/ SolveBegin
    \/ SolveFound
    \/ SolveExpand
    \/ SolveExhausted
    \/ SolveReturnNone
    \/ SolveReturnPath

Spec == Init /\ [][Next]_vars

\* the while loops of generate() and solve() go on to their next iteration,
\* and a call that has left its loop returns
SpecFair ==
    /\ Init /\ [][Next]_vars
    /\ WF_vars(GenerateCarve \/ GenerateBacktrack \/ GenerateEnd)
    /\ WF_vars(SolveFound \/ SolveExpand \/ SolveExhausted)
    /\ WF_vars(SolveReturnNone \/ SolveReturnPath)

\* ---- generate() called again on the same maze ------------------------------
NextAgain ==
    \/ Next
    \/ GenerateAgain

SpecAgain == Init /\ [][NextAgain]_vars

\* ---- a hand-built grid, then solve() ---------------------------------------
\* dimensions a constructor call can store, small enough to enumerate grids
HandDims ==
    {d \in {<<Normalize(h), Normalize(w)>> : h \in 1..MaxHandDim, w \in 1..MaxHandDim} :
        d[1] * d[2] <= MaxHandCells}

\* the number of cells of g that hold Path
PathCount(g) ==
    Cardinality({p \in (DOMAIN g) \X (DOMAIN g[1]) : g[p[1]][p[2]] = Path})

\* Maze(w, h) followed by assignments of Path to at most `most` cells of
\* self.grid (solve() only compares a glyph with '#', so Path stands for every
\* other glyph)
HandBuilt(dims, most) ==
    /\ pc = "handbuilt"
    /\ \E d \in dims :
          /\ height = d[1]
          /\ width = d[2]
          /\ arg_height = d[1]
          /\ arg_width = d[2]
          /\ grid \in {g \in [1..d[1] -> [1..d[2] -> {Wall, Path}]] : PathCount(g) <= most}
          /\ end = EndOf(d[2], d[1])
    /\ start = <<1, 1>>
    /\ generations = 0
    /\ stack = <<>>
    /\ targets = {}
    /\ connectors = {}
    /\ queue = <<>>
    /\ parent_map = <<>>
    /\ visited = {}
    /\ path_found = FALSE
    /\ result = NoResult
    /\ output = <<>>
    /\ display_path = None
    /\ current = 1
    /\ other = NoInstance
    /\ uf_pc = "new"
    /\ uf_parent = <<>>
    /\ uf_unions = <<>>
    /\ iterations = 0
    /\ pushes = <<>>
    /\ pops = <<>>
    /\ returned_grid = <<>>
    /\ accessed = {}
    /\ enqueued = <<>>
    /\ dequeued = <<>>

InitHand == HandBuilt(HandDims, MaxHandCells)

NextHand ==
    \/ SolveBegin
    \/ SolveFound
    \/ SolveExpand
    \/ SolveExhausted
    \/ SolveReturnNone
    \/ SolveReturnPath

SpecHand == InitHand /\ [][NextHand]_vars

\* ---- a hand-built grid with few Path cells, then solve() -----------------------
SearchDims ==
    {<<Normalize(h), Normalize(w)>> : h \in 1..MaxSearchHeight, w \in 1..MaxSearchWidth}

InitSearch == HandBuilt(SearchDims, MaxCarved)

SpecSearch == InitSearch /\ [][NextHand]_vars

\* ---- Maze(w, h), generate(), solve() and display(path) in between -----------
\* lists of at most MaxPathLen in-bounds coordinates
CoordinateLists ==
    UNION {[1..n -> {<<r, c>> : r \in 0..(height - 1), c \in 0..(width - 1)}] :
             n \in 0..MaxPathLen}

\* None, an empty list, what solve() returned, or any short coordinate list
PathArgs ==
    {None} \cup CoordinateLists
           \cup (IF pc = "solved" /\ ~result.isNone THEN {result.path} ELSE {})

NextDisplay ==
    \/ \E w \in 1..MaxDisplayDim, h \in 1..MaxDisplayDim : MazeInit(w, h)
    \/ GenerateBegin
    \/ GenerateRaise
    \/ GenerateCarve
    \/ GenerateBacktrack
    \/ GenerateEnd
    \/ SolveBegin
    \/ SolveFound
    \/ SolveExpand
    \/ SolveExhausted
    \/ SolveReturnNone
    \/ SolveReturnPath
    \/ output = <<>> /\ \E path \in PathArgs : Display(path)

SpecDisplay == Init /\ [][NextDisplay]_vars

\* ---- two Maze instances whose steps interleave ---------------------------------
\* the attributes and locals of the current instance, as one record
Instance ==
    [pc |-> pc, arg_width |-> arg_width, arg_height |-> arg_height,
     width |-> width, height |-> height, grid |-> grid, start |-> start,
     end |-> end, generations |-> generations,
     stack |-> stack, targets |-> targets, connectors |-> connectors,
     queue |-> queue, parent_map |-> parent_map, visited |-> visited,
     path_found |-> path_found, result |-> result,
     iterations |-> iterations, pushes |-> pushes, pops |-> pops,
     returned_grid |-> returned_grid, accessed |-> accessed,
     enqueued |-> enqueued, dequeued |-> dequeued]

\* an attribute kept in one place for every instance (a class attribute)
SharedAttribute(own, theirs) == theirs
\* an attribute as an instance finds it when its operation resumes: lines
\* 28-34 assign width, height, grid, start and end on self, and line 32 builds
\* a new list of new rows for each instance
OwnAttribute(own, theirs) == own

\* a local kept across calls and instances (a mutable default argument)
SharedLocal(own, theirs) == theirs
\* a local as a call finds it when it resumes: stack (line 46), queue,
\* parent_map and visited (lines 98-106) are created by each call
OwnLocal(own, theirs) == own

\* the running instance is suspended between two steps and the other resumes
Switch ==
    /\ current' = 3 - current
    /\ other' = Instance
    /\ pc' = other.pc
    /\ arg_width' = other.arg_width
    /\ arg_height' = other.arg_height
    /\ generations' = other.generations
    /\ targets' = other.targets
    /\ connectors' = other.connectors
    /\ result' = other.result
    /\ iterations' = other.iterations
    /\ pushes' = other.pushes
    /\ pops' = other.pops
    /\ returned_grid' = other.returned_grid
    /\ accessed' = other.accessed
    /\ enqueued' = other.enqueued
    /\ dequeued' = other.dequeued
    /\ width' = OwnAttribute(other.width, width)
    /\ height' = OwnAttribute(other.height, height)
    /\ grid' = OwnAttribute(other.grid, grid)
    /\ start' = OwnAttribute(other.start, start)
    /\ end' = OwnAttribute(other.end, end)
    /\ stack' = OwnLocal(other.stack, stack)
    /\ queue' = OwnLocal(other.queue, queue)
    /\ parent_map' = OwnLocal(other.parent_map, parent_map)
    /\ visited' = OwnLocal(other.visited, visited)
    /\ path_found' = OwnLocal(other.path_found, path_found)
    /\ UNCHANGED <<output, display_path, uf_pc, uf_parent, uf_unions>>

NextPair ==
    \/ \E w \in 1..MaxPairDim, h \in 1..MaxPairDim : MazeInit(w, h)
    \/ GenerateBegin
    \/ GenerateRaise
    \/ GenerateCarve
    \/ GenerateBacktrack
    \/ GenerateEnd
    \/ SolveBegin
    \/ SolveFound
    \/ SolveExpand
    \/ SolveExhausted
    \/ SolveReturnNone
    \/ SolveReturnPath
    \/ Switch

SpecPair == Init /\ [][NextPair]_vars

\* ---- two runs: Maze(w, h).generate() on one instance, then on another ----------
NextRuns ==
    \/ \E w \in 1..MaxRunDim, h \in 1..MaxRunDim : MazeInit(w, h)
    \/ GenerateBegin
    \/ GenerateRaise
    \/ GenerateCarve
    \/ GenerateBacktrack
    \/ GenerateEnd
    \/ pc = "generated" /\ other.pc = "new" /\ Switch

SpecRuns == Init /\ [][NextRuns]_vars

\* ---- UnionFind (src/tutorials/2026/02/python_17_feb_255.py) ------------------
\* number of elements of the example's UnionFind(5)
UFSize == 5

\* the attributes, locals and output of the Maze instances
mazeVars == <<pc, arg_width, arg_height, width, height, grid, start, end,
              generations, stack, targets, connectors,
              queue, parent_map, visited, path_found, result,
              output, display_path, current, other,
              iterations, pushes, pops, returned_grid, accessed, enqueued, dequeued>>

\* self.parent[x] = v
SetParent(parent, x, v) == [parent EXCEPT ![x + 1] = v]

\* find(x): the root it returns and self.parent after the path compression
\* of lines 8-9
RECURSIVE Find(_, _)
Find(parent, x) ==
    IF parent[x + 1] # x
    THEN LET up == Find(parent, parent[x + 1])
         IN [root |-> up.root, parent |-> SetParent(up.parent, x, up.root)]
    ELSE [root |-> parent[x + 1], parent |-> parent]

\* union(x, y): self.parent afterwards
Union(parent, x, y) ==
    LET fx == Find(parent, x)
        fy == Find(fx.parent, y)
    IN IF fx.root # fy.root
       THEN SetParent(fy.parent, fx.root, fy.root)
       ELSE fy.parent

\* line 4: self.parent = list(range(n))
UFInit(n) ==
    /\ uf_pc = "new"
    /\ uf_parent' = [i \in 1..n |-> i - 1]
    /\ uf_pc' = "constructed"
    /\ UNCHANGED uf_unions
    /\ UNCHANGED mazeVars

\* lines 27-31 (and 53-57): the example's five assignments to uf.parent
UFSetup ==
    /\ uf_pc = "constructed"
    /\ uf_parent' = SetParent(SetParent(SetParent(SetParent(SetParent(
                        uf_parent, 0, 0), 1, 0), 2, 1), 3, 1), 4, 2)
    /\ uf_pc' = "ready"
    /\ UNCHANGED uf_unions
    /\ UNCHANGED mazeVars

\* uf.find(x), as in the print loops and the asserts
UFFind(x) ==
    /\ uf_pc = "ready"
    /\ uf_parent' = Find(uf_parent, x).parent
    /\ UNCHANGED <<uf_pc, uf_unions>>
    /\ UNCHANGED mazeVars

\* uf.union(x, y)
UFUnion(x, y) ==
    /\ uf_pc = "ready"
    /\ Len(uf_unions) < MaxUnions
    /\ uf_parent' = Union(uf_parent, x, y)
    /\ uf_unions' = Append(uf_unions, <<x, y>>)
    /\ UNCHANGED uf_pc
    /\ UNCHANGED mazeVars

NextUF ==
    \/ UFInit(UFSize)
    \/ UFSetup
    \/ \E x \in 0..(UFSize - 1) : UFFind(x)
    \/ \E x \in 0..(UFSize - 1), y \in 0..(UFSize - 1) : UFUnion(x, y)

SpecUF == Init /\ [][NextUF]_vars

\* ---- vocabulary of the properties -----------------------------------------
AllCells == {<<r, c>> : r \in 0..(height - 1), c \in 0..(width - 1)}

\* in-bounds cells that are not Wall
OpenCells == {p \in AllCells : Cell(grid, p[1], p[2]) # Wall}

Abs(x) == IF x < 0 THEN 0 - x ELSE x

Manhattan(a, b) == Abs(a[1] - b[1]) + Abs(a[2] - b[2])

\* cells reached from the set S by unit moves into in-bounds non-Wall cells
RECURSIVE ReachableFrom(_)
ReachableFrom(S) ==
    LET more == {p \in OpenCells : \E q \in S : Manhattan(p, q) = 1} \ S
    IN IF more = {} THEN S ELSE ReachableFrom(S \cup more)

\* unordered 4-adjacent pairs of non-Wall cells, each counted once
OpenEdges ==
    {e \in OpenCells \X OpenCells :
        /\ Manhattan(e[1], e[2]) = 1
        /\ (e[1][1] < e[2][1] \/ (e[1][1] = e[2][1] /\ e[1][2] < e[2][2]))}

\* number of cells of a shortest route from start to end that moves into
\* in-bounds non-Wall cells only; 0 when there is none
RECURSIVE CellsToEnd(_, _, _)
CellsToEnd(frontier, seen, k) ==
    IF end \in frontier THEN k
    ELSE LET more == {p \in OpenCells : \E q \in frontier : Manhattan(p, q) = 1} \ seen
         IN IF more = {} THEN 0 ELSE CellsToEnd(more, seen \cup more, k + 1)

ShortestCells == CellsToEnd({start}, {start}, 1)

OddAtLeast3 == width >= 3 /\ height >= 3 /\ width % 2 = 1 /\ height % 2 = 1

\* in a path, every consecutive pair of coordinates is one unit move apart
UnitSteps(path) == \A i \in 1..(Len(path) - 1) : Manhattan(path[i], path[i + 1]) = 1

\* ---- properties ------------------------------------------------------------

\* C1: after every iteration of generate()'s carving loop and after
\* generate() has returned, on odd width, height >= 3, every non-Wall cell is
\* reachable from start by unit moves through non-Wall cells.
C1_Connected ==
    (OddAtLeast3 /\ (pc = "generating" \/ generations >= 1))
        => OpenCells \subseteq ReachableFrom({start})

C1_Witness ==
    /\ pc = "generating"
    /\ width = 7
    /\ height = 5
    /\ Len(stack) = 2
    /\ Cardinality(OpenCells) = 11

\* C2: after generate() on odd width, height >= 3 the non-Wall cells form a
\* tree under 4-adjacency: connected, and as many adjacent pairs as cells
\* minus one.
C2_Tree ==
    (OddAtLeast3 /\ generations >= 1)
        => /\ OpenCells \subseteq ReachableFrom({start})
           /\ Cardinality(OpenEdges) = Cardinality(OpenCells) - 1

C2_Witness ==
    /\ pc = "generated"
    /\ width = 7
    /\ height = 7
    /\ Cardinality(OpenCells) = 17
    /\ Cardinality(OpenEdges) = 16

\* C3: solve() after generate() on odd width, height >= 3 returns a path, not
\* None, that begins at start, ends at end and moves one unit at a time.
C3_SolvedPath ==
    (OddAtLeast3 /\ generations >= 1 /\ pc = "solved")
        => /\ ~result.isNone
           /\ Len(result.path) >= 1
           /\ result.path[1] = start
           /\ result.path[Len(result.path)] = end
           /\ UnitSteps(result.path)

C3_Witness ==
    /\ pc = "solved"
    /\ generations = 1
    /\ width = 7
    /\ height = 7
    /\ Len(result.path) = 13
    /\ result.path[1] = <<1, 1>>
    /\ result.path[13] = <<5, 5>>

\* C4: on any grid contents in which end can be reached from start, the path
\* solve() returns has as few cells as any route from start to end that moves
\* into in-bounds non-Wall cells only.
C4_ShortestPath ==
    (pc = "solved" /\ ShortestCells # 0)
        => /\ ~result.isNone
           /\ Len(result.path) = ShortestCells

\* a 3x5 grid with a loop: the direct route of 3 cells along row 1 and the
\* detour of 5 cells along row 0 are both open
C4_Witness ==
    /\ pc = "solved"
    /\ height = 3
    /\ width = 5
    /\ \A p \in {<<0, 1>>, <<0, 2>>, <<0, 3>>, <<1, 1>>, <<1, 2>>, <<1, 3>>} :
          Cell(grid, p[1], p[2]) = Path
    /\ Len(result.path) = 3

\* C5: on any grid contents solve() raises nothing, and it returns None
\* exactly when end cannot be reached from start by unit moves into in-bounds
\* non-Wall cells; otherwise it returns a path.
C5_NoneIffUnreachable ==
    /\ pc # "raised"
    /\ pc = "solved" => (result.isNone <=> end \notin ReachableFrom({start}))
    /\ (pc = "solved" /\ ~result.isNone) => Len(result.path) >= 1

\* end is walled off although the search visited several cells
C5_Witness ==
    /\ pc = "solved"
    /\ result.isNone
    /\ Cardinality(visited) >= 4
    /\ Cell(grid, end[1], end[2]) = Path

\* C6: after generate() on odd width, height >= 3 (3x3 included) exactly one
\* cell holds Start, at (1,1), and exactly one holds End, at
\* (height-2, width-2).
C6_OneStartOneEnd ==
    (OddAtLeast3 /\ pc = "generated")
        => /\ {p \in AllCells : Cell(grid, p[1], p[2]) = Start} = {<<1, 1>>}
           /\ {p \in AllCells : Cell(grid, p[1], p[2]) = End} = {<<height - 2, width - 2>>}

\* C7: for positive arguments each stored dimension is the argument when it
\* is odd and the argument plus one when it is even, hence always odd.
C7_OddDimensions ==
    (pc # "new" /\ arg_width > 0 /\ arg_height > 0)
        => /\ width \in {arg_width, arg_width + 1}
           /\ height \in {arg_height, arg_height + 1}
           /\ width % 2 = 1
           /\ height % 2 = 1

C7_Witness ==
    /\ pc = "constructed"
    /\ arg_width = 4
    /\ width = 5
    /\ arg_height = 3
    /\ height = 3

\* C8: right after construction with positive arguments the grid has height
\* rows of width cells, all Wall, for the normalized height and width;
\* start is (1,1) and end is (height-2, width-2).
C8_FreshGrid ==
    (pc = "constructed" /\ arg_width > 0 /\ arg_height > 0)
        => LET nw == IF arg_width % 2 = 0 THEN arg_width + 1 ELSE arg_width
               nh == IF arg_height % 2 = 0 THEN arg_height + 1 ELSE arg_height
           IN /\ Len(grid) = nh
              /\ \A r \in 1..Len(grid) :
                    /\ Len(grid[r]) = nw
                    /\ \A c \in 1..Len(grid[r]) : grid[r][c] = Wall
              /\ start = <<1, 1>>
              /\ end = <<nh - 2, nw - 2>>

C8_Witness ==
    /\ pc = "constructed"
    /\ arg_width = 4
    /\ arg_height = 2
    /\ Len(grid) = 3
    /\ Len(grid[1]) = 5

\* C9: with positive width and height arguments (1 and 2 included) neither
\* the constructor nor the generate() that follows raises an error.
C9_GenerateNeverRaises ==
    (arg_width > 0 /\ arg_height > 0) => pc # "raised"

\* C10: a constructor call with a width or height that is zero or negative
\* fails; no maze is constructed from it.
C10_NonPositiveRejected ==
    ~(pc = "constructed" /\ (arg_width <= 0 \/ arg_height <= 0))

\* C11: display(path) leaves grid, start and end as they were for every path
\* argument, and no cell of the grid ever holds the SolutionMark.
C11_DisplayKeepsGrid ==
    /\ [][(pc' = pc /\ pc \in {"constructed", "generated", "solved"})
            => (grid' = grid /\ start' = start /\ end' = end)]_vars
    /\ [](\A r \in 1..Len(grid) : \A c \in 1..Len(grid[r]) : grid[r][c] # SolutionMark)

\* display() has printed a mark for a path of two cells; the grid has none
C11_Witness ==
    /\ pc = "generated"
    /\ Len(display_path) = 2
    /\ display_path[1] # display_path[2]
    /\ \E r \in 1..Len(output) : \E c \in 1..Len(output[r]) : output[r][c] = SolutionMark
    /\ \A r \in 1..Len(grid) : \A c \in 1..Len(grid[r]) : grid[r][c] # SolutionMark

\* C12: display(path) prints height lines of width glyphs; the glyph at (r,c)
\* is the SolutionMark if and only if (r,c) occurs in path and is neither
\* start nor end, and is grid[r][c] otherwise.
C12_DisplayOutput ==
    output # <<>>
        => /\ Len(output) = height
           /\ \A r \in 0..(height - 1) :
                 /\ Len(output[r + 1]) = width
                 /\ \A c \in 0..(width - 1) :
                       LET onPath == \E i \in 1..Len(display_path) : display_path[i] = <<r, c>>
                           marked == onPath /\ <<r, c>> # start /\ <<r, c>> # end
                       IN /\ (output[r + 1][c + 1] = SolutionMark) <=> marked
                          /\ ~marked => output[r + 1][c + 1] = Cell(grid, r, c)

\* the path solve() returned is shown: marks between 'S' and 'E'
C12_Witness ==
    /\ pc = "solved"
    /\ generations = 1
    /\ width = 5
    /\ height = 5
    /\ display_path = result.path
    /\ Len(display_path) = 5
    /\ output[2][2] = Start
    /\ output[4][4] = End
    /\ Cardinality({p \in AllCells : output[p[1] + 1][p[2] + 1] = SolutionMark}) = 3

\* C13: no step of solve() changes grid, start or end, whether solve() goes
\* on to return a path or None: the grid when solve() returns is the grid it
\* was called on.
C13_SolveKeepsGrid ==
    [][(pc' = "solving" \/ pc \in {"solving", "searched"})
          => (grid' = grid /\ start' = start /\ end' = end)]_vars

\* solve() has returned a path after visiting cells of a generated maze
C13_Witness ==
    /\ pc = "solved"
    /\ generations = 1
    /\ ~result.isNone
    /\ Cardinality(visited) >= 9
    /\ Cardinality(OpenCells) = Cardinality(visited)

\* C17: in a 3x3 maze start and end are both (1,1); generate() carves that
\* one cell only, and solve() then returns the one-element path [(1,1)].
C17_Minimal3x3 ==
    (width = 3 /\ height = 3 /\ pc # "new")
        => /\ start = <<1, 1>>
           /\ end = <<1, 1>>
           /\ generations >= 1 => OpenCells = {<<1, 1>>}
           /\ (generations >= 1 /\ pc = "solved")
                 => (~result.isNone /\ result.path = << <<1, 1>> >>)

C17_Witness ==
    /\ width = 3
    /\ height = 3
    /\ generations = 1
    /\ pc = "solved"
    /\ result.path = << <<1, 1>> >>

Odd(x) == x % 2 = 1

Even(x) == x % 2 = 0

\* C19 as stated: after generate() start and every cell carved as the target
\* of a 2-unit step have even row and column, and every carved connector lies
\* at an odd coordinate between two adjacent even-coordinate junctions.
C19_EvenLattice ==
    (OddAtLeast3 /\ generations >= 1)
        => /\ Even(start[1]) /\ Even(start[2])
           /\ \A t \in targets : Even(t[1]) /\ Even(t[2])
           /\ \A q \in connectors :
                 \/ /\ Odd(q[1]) /\ Even(q[2])
                    /\ {<<q[1] - 1, q[2]>>, <<q[1] + 1, q[2]>>} \subseteq targets \cup {start}
                 \/ /\ Even(q[1]) /\ Odd(q[2])
                    /\ {<<q[1], q[2] - 1>>, <<q[1], q[2] + 1>>} \subseteq targets \cup {start}

\* C19 amended: after generate() start and every cell carved as the target of
\* a 2-unit step have odd row and column, and every carved connector has
\* exactly one even coordinate and lies between two adjacent odd-coordinate
\* junctions.
C19_OddLattice ==
    (OddAtLeast3 /\ generations >= 1)
        => /\ Odd(start[1]) /\ Odd(start[2])
           /\ \A t \in targets : Odd(t[1]) /\ Odd(t[2])
           /\ \A q \in connectors :
                 \/ /\ Even(q[1]) /\ Odd(q[2])
                    /\ {<<q[1] - 1, q[2]>>, <<q[1] + 1, q[2]>>} \subseteq targets \cup {start}
                 \/ /\ Odd(q[1]) /\ Even(q[2])
                    /\ {<<q[1], q[2] - 1>>, <<q[1], q[2] + 1>>} \subseteq targets \cup {start}

C19_Witness ==
    /\ pc = "generated"
    /\ width = 7
    /\ height = 7
    /\ Cardinality(targets) = 8
    /\ Cardinality(connectors) = 8
    /\ <<5, 5>> \in targets
    /\ <<2, 1>> \in connectors

\* C20: when the carving loop ends on odd width, height >= 3, every in-bounds
\* cell whose row and column differ from start's by multiples of 2 has been
\* carved; so end is not Wall before the End marker is written.
C20_AllJunctionsCarved ==
    (OddAtLeast3 /\ pc = "generating" /\ stack = <<>>)
        => /\ \A p \in AllCells :
                 ((p[1] - start[1]) % 2 = 0 /\ (p[2] - start[2]) % 2 = 0)
                     => Cell(grid, p[1], p[2]) # Wall
           /\ Cell(grid, end[1], end[2]) = Path

\* the loop has ended on a 7x5 grid and the End marker is not written yet
C20_Witness ==
    /\ pc = "generating"
    /\ stack = <<>>
    /\ width = 7
    /\ height = 5
    /\ end = <<3, 5>>
    /\ Cell(grid, 3, 5) = Path

\* what uf.find(x) returns in the current state
Root(x) == Find(uf_parent, x).root

\* C18: after parent = [0,0,1,1,2], union(0,1) and union(1,3), find(0),
\* find(1) and find(3) are equal and find(4) = 4; after the same setup and
\* union(0,1) alone, find(0) = find(1), find(2) = 2, find(3) = 3 and
\* find(4) = 4 (the asserts of lines 46-47 and 67-70).
C18_ExampleAsserts ==
    /\ (uf_pc = "ready" /\ uf_unions = << <<0, 1>>, <<1, 3>> >>)
          => (Root(0) = Root(1) /\ Root(1) = Root(3) /\ Root(4) = 4)
    /\ (uf_pc = "ready" /\ uf_unions = << <<0, 1>> >>)
          => (Root(0) = Root(1) /\ Root(2) = 2 /\ Root(3) = 3 /\ Root(4) = 4)

\* the grids generate()'s loop can end with, from grid g and stack stk, when
\* the instance runs alone
RECURSIVE LoopOutcomes(_, _)
LoopOutcomes(g, stk) ==
    IF stk = <<>> THEN {g}
    ELSE LET cur == stk[Len(stk)]
             unvisited_neighbors == UnvisitedNeighbors(g, cur)
         IN IF unvisited_neighbors = <<>>
            THEN LoopOutcomes(g, SubSeq(stk, 1, Len(stk) - 1))
            ELSE UNION {LET nxt == unvisited_neighbors[i]
                            wall == WallBetween(cur, nxt)
                        IN LoopOutcomes(SetCell(SetCell(g, nxt[1], nxt[2], Path),
                                                wall[1], wall[2], Path),
                                        Append(stk, nxt)) :
                        i \in 1..Len(unvisited_neighbors)}

\* the grids generate() can leave on a new maze of the current dimensions
\* when the instance runs alone
GeneratedAlone ==
    {SetCell(SetCell(g, start[1], start[2], Start), end[1], end[2], End) :
        g \in LoopOutcomes(SetCell(MakeGrid(width, height), start[1], start[2], Path),
                           <<start>>)}

\* what solve() returns on grid g when the instance runs alone
RECURSIVE SearchAlone(_, _)
SearchAlone(g, st) ==
    IF st.queue = <<>> THEN [isNone |-> TRUE, path |-> <<>>]
    ELSE IF PopLeft(st.queue)[1] = end
         THEN [isNone |-> FALSE, path |-> Reverse(Reconstruct(st.parent_map, end))]
         ELSE SearchAlone(g, ScanNeighbors(g, PopLeft(st.queue)[1], 1,
                                 [st EXCEPT !.queue = PopLeft(st.queue)[2]]))

SolvedAlone(g) ==
    SearchAlone(g, [visited |-> {start}, queue |-> <<start>>,
                    parent_map |-> PutParent(<<>>, start, None),
                    grid |-> g, raised |-> FALSE])

\* C16: with the steps of two Maze instances interleaved, a step of one
\* leaves the attributes and locals of the other as they were, an instance
\* resumes with exactly what it had when it was suspended, and generate() and
\* solve() finish with a grid and a path the instance could have produced
\* running alone.
C16_InstancesIndependent ==
    /\ [][current' = current => other' = other]_vars
    /\ [][current' # current => (Instance' = other /\ other' = Instance)]_vars
    /\ []((OddAtLeast3 /\ generations = 1 /\ pc \in {"generated", "solved"})
             => grid \in GeneratedAlone)
    /\ [](pc = "solved" => result = SolvedAlone(grid))

\* both instances have generated and solved a 5x5 maze, step by step in turn,
\* and ended with different grids
C16_Witness ==
    /\ pc = "solved"
    /\ other.pc = "solved"
    /\ generations = 1
    /\ other.generations = 1
    /\ width = 5 /\ height = 5
    /\ other.width = 5 /\ other.height = 5
    /\ grid # other.grid
    /\ Len(result.path) = 5
    /\ Len(other.result.path) = 5

\* the four cells 2 units from p along its row or its column
TwoAway(p) ==
    {<<p[1], p[2] + 2>>, <<p[1], p[2] - 2>>, <<p[1] + 2, p[2]>>, <<p[1] - 2, p[2]>>}

\* the in-bounds Wall cells of g among them
WallsTwoAway(g, p) == {n \in TwoAway(p) \cap AllCells : Cell(g, n[1], n[2]) = Wall}

\* the cells at which two grids of the current dimensions differ
Changed(g1, g2) == {p \in AllCells : Cell(g1, p[1], p[2]) # Cell(g2, p[1], p[2])}

\* C21: an iteration of generate()'s loop whose top cell has an in-bounds Wall
\* neighbour 2 units away pushes one such neighbour and changes exactly two
\* cells, that neighbour and the midpoint between it and the top cell, both
\* Wall before and Path after; an iteration whose top cell has none pops the
\* top cell and leaves the grid unchanged.
C21_CarveOrBacktrack ==
    [][(pc = "generating" /\ stack # <<>>)
          => LET top == stack[Len(stack)] IN
             IF WallsTwoAway(grid, top) # {}
             THEN \E n \in WallsTwoAway(grid, top) :
                     LET mid == <<(top[1] + n[1]) \div 2, (top[2] + n[2]) \div 2>>
                     IN /\ stack' = Append(stack, n)
                        /\ Changed(grid, grid') = {n, mid}
                        /\ Cell(grid, n[1], n[2]) = Wall
                        /\ Cell(grid, mid[1], mid[2]) = Wall
                        /\ Cell(grid', n[1], n[2]) = Path
                        /\ Cell(grid', mid[1], mid[2]) = Path
             ELSE /\ stack' = SubSeq(stack, 1, Len(stack) - 1)
                  /\ grid' = grid]_vars

\* on a 7x7 grid the loop has carved six times and backtracked once, and the
\* top cell now has a Wall neighbour again
C21_Witness ==
    /\ pc = "generating"
    /\ width = 7
    /\ height = 7
    /\ Len(pushes) = 7
    /\ Len(pops) >= 1
    /\ stack # <<>>
    /\ WallsTwoAway(grid, stack[Len(stack)]) # {}

\* the number of cells with odd row and odd column: J of the claim
JunctionCount == ((height - 1) \div 2) * ((width - 1) \div 2)

Junctions == {p \in AllCells : Odd(p[1]) /\ Odd(p[2])}

\* how many times x occurs in the sequence s
Occurrences(s, x) == Cardinality({i \in 1..Len(s) : s[i] = x})

\* C22: a first generate() on odd width, height >= 3 terminates under every
\* sequence of random choices: no cell is pushed or popped twice, the loop
\* never begins more than 2*J-1 iterations, the stack is empty exactly when
\* 2*J-1 iterations have run, and by then every junction has been pushed
\* once and popped once; J = ((height-1)/2)*((width-1)/2).
C22_Terminates ==
    /\ []((OddAtLeast3 /\ pc = "generating")
             => /\ iterations <= 2 * JunctionCount - 1
                /\ (stack = <<>>) <=> (iterations = 2 * JunctionCount - 1)
                /\ \A p \in AllCells : Occurrences(pushes, p) <= 1
                /\ \A p \in AllCells : Occurrences(pops, p) <= 1)
    /\ []((OddAtLeast3 /\ generations = 1)
             => /\ iterations = 2 * JunctionCount - 1
                /\ stack = <<>>
                /\ \A p \in AllCells :
                      /\ Occurrences(pushes, p) = (IF p \in Junctions THEN 1 ELSE 0)
                      /\ Occurrences(pops, p) = (IF p \in Junctions THEN 1 ELSE 0))
    /\ ((pc = "generating") ~> (pc = "generated"))

\* generate() has returned on a 7x5 grid, J = 6, after 11 iterations of which
\* some backtracked before the last carve
C22_Witness ==
    /\ pc = "generated"
    /\ width = 7
    /\ height = 5
    /\ iterations = 11
    /\ Len(pushes) = 6
    /\ Len(pops) = 6
    /\ pops[1] # pushes[6]

\* the cells at 0, 1, 2, ... unit moves from start, moving into the cells of
\* open only: the sets of cells at each distance, nearest first
RECURSIVE LevelsFrom(_, _, _)
LevelsFrom(open, frontier, seen) ==
    LET more == {q \in open : \E f \in frontier : Manhattan(q, f) = 1} \ seen
    IN IF more = {} THEN <<frontier>>
       ELSE <<frontier>> \o LevelsFrom(open, more, seen \cup more)

Levels == LevelsFrom(OpenCells, {start}, {start})

\* the least number of unit moves into in-bounds non-Wall cells that lead from
\* start to p, given the levels; -1 when there is no such route
DistanceIn(levels, p) ==
    IF \E k \in 1..Len(levels) : p \in levels[k]
    THEN (CHOOSE k \in 1..Len(levels) : p \in levels[k]) - 1
    ELSE 0 - 1

Distance(p) == DistanceIn(Levels, p)

NonDecreasing(d) == \A i \in 1..(Len(d) - 1) : d[i] <= d[i + 1]

\* C23: on any grid contents, at every moment of solve() the cells dequeued
\* so far were dequeued in non-decreasing order of their shortest distance
\* from start, and the distances of the cells in the queue are non-decreasing
\* from front to back and differ by at most 1.
C23_DistanceOrder ==
    (pc \in {"solving", "searched", "solved"})
        => LET levels == Levels
               dq == [i \in 1..Len(dequeued) |-> DistanceIn(levels, dequeued[i])]
               qd == [i \in 1..Len(queue) |-> DistanceIn(levels, queue[i])]
           IN /\ \A i \in 1..Len(dq) : dq[i] >= 0
              /\ \A i \in 1..Len(qd) : qd[i] >= 0
              /\ NonDecreasing(dq)
              /\ NonDecreasing(qd)
              /\ qd # <<>> => qd[Len(qd)] - qd[1] <= 1

\* the queue holds cells of two distances, 2 and 3, after four dequeues
C23_Witness ==
    /\ pc = "solving"
    /\ Len(dequeued) = 4
    /\ Len(queue) >= 3
    /\ Distance(queue[1]) = 2
    /\ Distance(queue[Len(queue)]) = 3

\* C24: on any grid contents, the iteration of solve() that dequeues end
\* leaves the loop without touching visited or parent_map; end is the last
\* cell dequeued, so its neighbours are never scanned; no key of parent_map
\* has end as its parent; and visited, parent_map and the rest of the queue
\* stay as that dequeue left them.
C24_EarlyExit ==
    /\ [][(pc = "solving" /\ queue # <<>> /\ Head(queue) = end)
             => /\ pc' = "searched"
                /\ path_found'
                /\ queue' = Tail(queue)
                /\ visited' = visited
                /\ parent_map' = parent_map]_vars
    /\ [][(pc \in {"searched", "solved"})
             => (visited' = visited /\ parent_map' = parent_map /\ queue' = queue)]_vars
    /\ [](\A i \in 1..Len(dequeued) :
              dequeued[i] = end => (i = Len(dequeued) /\ pc # "solving"))
    /\ [](\A k \in DOMAIN parent_map : parent_map[k] # end)

\* solve() has returned a path; when end was dequeued the queue still held a
\* cell, and a non-Wall neighbour of end has never been visited
C24_Witness ==
    /\ pc = "solved"
    /\ ~result.isNone
    /\ queue # <<>>
    /\ dequeued[Len(dequeued)] = end
    /\ \E n \in OpenCells : Manhattan(n, end) = 1 /\ n \notin visited

\* the position at which a cell was appended to the queue (1 for start)
EnqueuedAt(p) == CHOOSE i \in 1..Len(enqueued) : enqueued[i] = p

\* C25: on any grid contents, at every point of solve() the keys of
\* parent_map are the visited cells, start is the only key mapped to None,
\* no cell has been enqueued twice, and every other key maps to a key one
\* unit away that was enqueued before it; the path solve() returns repeats
\* no coordinate.
C25_ParentMap ==
    /\ (pc \in {"solving", "searched", "solved"})
          => /\ DOMAIN parent_map = visited
             /\ {enqueued[i] : i \in 1..Len(enqueued)} = visited
             /\ \A p \in visited : Occurrences(enqueued, p) = 1
             /\ \A k \in DOMAIN parent_map :
                   IF k = start THEN parent_map[k] = None
                   ELSE /\ parent_map[k] # None
                        /\ parent_map[k] \in DOMAIN parent_map
                        /\ Manhattan(k, parent_map[k]) = 1
                        /\ EnqueuedAt(parent_map[k]) < EnqueuedAt(k)
    /\ (pc = "solved" /\ ~result.isNone)
          => /\ \A i \in 1..Len(result.path) : \A j \in 1..Len(result.path) :
                   result.path[i] = result.path[j] => i = j
             /\ result.path[1] = start

\* a grid in which a visited cell has two visited neighbours that were
\* enqueued before it, so that it could have been reached twice
C25_Witness ==
    /\ pc = "solved"
    /\ ~result.isNone
    /\ Len(result.path) >= 4
    /\ \E k \in visited :
          Cardinality({n \in visited : Manhattan(n, k) = 1
                                        /\ EnqueuedAt(n) < EnqueuedAt(k)}) = 2

\* C26: on odd width, height >= 3 every index pair with which generate() or
\* solve() subscripts the grid (the candidate neighbours they test, the
\* chosen neighbour, the midpoint, start and end) satisfies
\* 0 <= row < height and 0 <= col < width.
C26_AccessInBounds ==
    OddAtLeast3
        => \A p \in accessed : 0 <= p[1] /\ p[1] < height /\ 0 <= p[2] /\ p[2] < width

\* generate() has returned on a 7x5 grid after subscripting the grid at every
\* junction, at five midpoints and at end; the candidates (1,-1) and (-1,1)
\* of the first iteration were never used as subscripts
C26_Witness ==
    /\ pc = "generated"
    /\ width = 7
    /\ height = 5
    /\ Junctions \subseteq accessed
    /\ end \in accessed
    /\ Cardinality(accessed) = 11
    /\ <<1, 0 - 1>> \notin accessed
    /\ <<0 - 1, 1>> \notin accessed

\* C27: on any grid contents, every coordinate of a path solve() returns is
\* in bounds, and every coordinate after the first is a non-Wall cell.
C27_PathCellsOpen ==
    (pc = "solved" /\ ~result.isNone)
        => \A i \in 1..Len(result.path) :
              /\ result.path[i] \in AllCells
              /\ i > 1 => Cell(grid, result.path[i][1], result.path[i][2]) # Wall

\* a path of five cells returned on a grid whose start cell is Wall and
\* which has Wall cells next to the path
C27_Witness ==
    /\ pc = "solved"
    /\ ~result.isNone
    /\ Len(result.path) = 5
    /\ Cell(grid, start[1], start[2]) = Wall
    /\ \E p \in AllCells \ OpenCells : Manhattan(p, result.path[3]) = 1

\* the cells of row 0, row height-1, column 0 and column width-1
Border == {p \in AllCells : p[1] \in {0, height - 1} \/ p[2] \in {0, width - 1}}

\* C28: on odd width, height >= 3, during generate() and after it every cell
\* of row 0, row height-1, column 0 and column width-1 is Wall, although
\* _is_valid holds of those cells.
C28_BorderWalls ==
    (OddAtLeast3 /\ (pc = "generating" \/ generations >= 1))
        => \A p \in Border : IsValid(p[1], p[2]) /\ Cell(grid, p[1], p[2]) = Wall

\* generate() has returned on a 7x7 grid: 24 border cells, all Wall, around
\* 17 carved cells
C28_Witness ==
    /\ pc = "generated"
    /\ width = 7
    /\ height = 7
    /\ Cardinality(Border) = 24
    /\ Cardinality(OpenCells) = 17
    /\ Cell(grid, 0, 6) = Wall
    /\ Cell(grid, 1, 5) # Wall

\* both runs have returned, on mazes of the same dimensions
TwoRunsDone ==
    /\ pc = "generated"
    /\ other.pc = "generated"
    /\ width = other.width
    /\ height = other.height

\* C29 as stated: two runs of generate() on mazes of the same dimensions
\* whose sequences of random choices differ at some step end with different
\* grids.  (pushes after its first element is the sequence of cells
\* random.choice returned.)
C29_AnyChoiceDiffers ==
    (TwoRunsDone /\ pushes # other.pushes) => grid # other.grid

\* C29 amended: two runs of generate() on mazes of the same dimensions whose
\* first random choices differ end with different grids.
C29_FirstChoiceDiffers ==
    (TwoRunsDone /\ Len(pushes) >= 2 /\ pushes[2] # other.pushes[2])
        => grid # other.grid

\* on two 7x7 mazes one run went right first and the other went down first
C29_Witness ==
    /\ TwoRunsDone
    /\ width = 7
    /\ height = 7
    /\ pushes[2] = <<1, 3>>
    /\ other.pushes[2] = <<3, 1>>
    /\ grid # other.grid
    /\ Cell(grid, 1, 2) = Path
    /\ Cell(other.grid, 1, 2) = Wall

\* C30: a generate() called on a maze whose generate() has returned before
\* carves no cell: while it runs the grid differs from the grid the earlier
\* call returned at most in the start cell, and when it returns the grid is
\* exactly that grid again, with the End marker at end and the Start marker
\* at start (where start is not end).
C30_GenerateAgainKeepsGrid ==
    /\ []((pc = "generating" /\ generations >= 1)
             => /\ targets = {}
                /\ connectors = {}
                /\ Changed(grid, returned_grid) \subseteq {start})
    /\ [][(pc = "generating" /\ pc' = "generated" /\ generations >= 1)
             => /\ grid' = returned_grid
                /\ Cell(grid', end[1], end[2]) = End
                /\ start # end => Cell(grid', start[1], start[2]) = Start]_vars

\* the second generate() on a 7x7 maze has returned after one iteration, a
\* pop of start, although its first call had carved 17 cells
C30_Witness ==
    /\ pc = "generated"
    /\ generations = 2
    /\ width = 7
    /\ height = 7
    /\ iterations = 1
    /\ pops = <<start>>
    /\ Cardinality(OpenCells) = 17
    /\ Cell(grid, 1, 1) = Start
    /\ Cell(grid, 5, 5) = End
====
